---- MODULE Spec2Model ----
(***************************************************************************)
(* Model of src_logic/common/profiler.common.js: the leak-graph builder    *)
(* createForceGraph and the expand/collapse toggle setExpandOff.           *)
(*                                                                         *)
(* The heap snapshot is an input: for every node index the analyzer gives  *)
(* id, name, distance, retainedSize and the list of child indices.  Ids    *)
(* are one per index (a V8 snapshot gives every node its own id).          *)
(***************************************************************************)
EXTENDS Integers, Sequences, FiniteSets, TLC

\* ---------------------------------------------------------------- bounds
MaxIndex == 4          \* node indices of the snapshot are 1..MaxIndex
MaxDistance == 2       \* distances of snapshot nodes are 0..MaxDistance
MaxSize == 2           \* retained sizes are 1..MaxSize
MaxDistanceLimit == 3  \* config distance_limit is 1..MaxDistanceLimit
MaxLeakLimit == 3      \* config leak_limit is 2..MaxLeakLimit
MaxNodeLimit == 2      \* config node_limit is 1..MaxNodeLimit
MaxScanIds == 3        \* the graphs of SpecCollapse have node ids 1..MaxScanIds
MaxScanLinks == 3      \* and at most MaxScanLinks links

Indices == 1..MaxIndex
Distances == 0..MaxDistance
Sizes == 1..MaxSize

VARIABLES
    snapshot,        \* index -> NodeDetail, what analysisLib.serialize yields
    cache,           \* _cache of serializeNode: index -> NodeDetail
    calls,           \* index -> how often analysisLib.serialize ran for it
    config,          \* config.profiler.mem.optional
    leakPoint,       \* the leak detector's list of leak indices
    heapUsed,        \* index -> NodeDetail, the external heap-used cache
    forceGraphAll,   \* key -> finished graph
    i,               \* position in leakPoint of the leak being built
    forceGraph,      \* graph under construction: [nodes, links]
    biggestList,     \* index -> [id, source, retainedSize]
    isRecorded,      \* ids already emitted as nodes
    distanceDisplay, \* hop counter
    leakIndexList,   \* frontier still to process in this hop
    tmpIndexArr,     \* next frontier
    keysLeft,        \* keys of biggestList the pre-expansion loop has not visited
    pc,              \* position in createForceGraph
    lastToggle,      \* the last click on a finished graph: [key, id, branch,
                     \* roundTrip], roundTrip when it collapsed the node the
                     \* click before had expanded
    scan             \* a call of setExpandOff followed statement by statement:
                     \* [nodes, links, dataId, m, n, len, linksNodes, p, pc]

vars == <<snapshot, cache, calls, config, leakPoint, heapUsed, forceGraphAll, i, forceGraph,
          biggestList, isRecorded, distanceDisplay, leakIndexList, tmpIndexArr,
          keysLeft, pc, lastToggle, scan>>

\* ------------------------------------------------------------ sequences
RECURSIVE SortedSeq(_)
\* The elements of a finite set of integers in ascending order.
SortedSeq(S) ==
    IF S = {} THEN <<>>
    ELSE LET m == CHOOSE x \in S : \A y \in S : x <= y
         IN <<m>> \o SortedSeq(S \ {m})

Range(s) == {s[k] : k \in 1..Len(s)}

\* ------------------------------------------------------------- snapshot
\* The id the analyzer reports for an index: distinct from the index,
\* one per index.
idOf(index) == 10 * index + 1

\* NoValue is JavaScript's undefined.
NoValue == "undefined"

\* line 45: analysisLib.serialize yields the detail of an index of the
\* snapshot and nothing for any other index
primitive(index) ==
    IF index \in DOMAIN snapshot THEN snapshot[index] ELSE NoValue

\* line 43: the test of if (cache), for the value serialize yields for index
materializes(index) == index \in DOMAIN cache \cup DOMAIN snapshot

\* lines 40-48: the memoized accessor returns the cached detail of an index,
\* or the analyzer's when there is none yet
serialize(index) ==
    IF index \in DOMAIN cache THEN cache[index] ELSE primitive(index)

\* lines 45-46: _cache once the indices of S have been serialized.  An
\* undefined result is stored too and is no entry for the test of line 43.
cached(S) ==
    [x \in DOMAIN cache \cup {y \in S : materializes(y)} |-> serialize(x)]

\* Mutant of called: the primitive runs whether or not the index is cached.
called_NoLookup(S) ==
    [x \in DOMAIN calls |-> IF x \in S THEN calls[x] + 1 ELSE calls[x]]

\* lines 41-45: calls once each index of S has been serialized, no index
\* without a detail more than once
called(S) ==
    [x \in DOMAIN calls |->
        IF x \in S /\ x \notin DOMAIN cache THEN calls[x] + 1 ELSE calls[x]]

\* line 365: the root of the snapshot, the first node at distance 0
rootIndex ==
    CHOOSE x \in DOMAIN snapshot :
        /\ snapshot[x].distance = 0
        /\ \A y \in DOMAIN snapshot : snapshot[y].distance = 0 => x <= y

\* Math.abs
abs(x) == IF x < 0 THEN -x ELSE x

\* ------------------------------------------------------ createForceGraph
NoSource == "null"

\* Mutant of retained: the distance filter is dropped.
retained_NoFilter(nodeDetail) == nodeDetail.children

\* line 84: children whose distance is parent.distance + 1, in list order
retained(nodeDetail) ==
    SelectSeq(nodeDetail.children,
              LAMBDA c : serialize(c).distance = 1 + nodeDetail.distance)

\* lines 93-110: the node pushed for a processed parent
parentNode(nodeDetail, leakIndex) ==
    LET isMain == (leakIndex = nodeDetail.index)
    IN [index |-> nodeDetail.index, name |-> nodeDetail.id, id |-> nodeDetail.id,
        isMain |-> isMain,
        size |-> IF isMain THEN 40 ELSE 30,
        category |-> IF isMain THEN 0 ELSE 1,
        ignore |-> ~isMain,
        flag |-> TRUE,
        label |-> NoValue, symbolSize |-> NoValue]

\* Mutant of boundaryNode: hop 2 is no exception.
boundaryNode_Hidden(childDetail, hop) ==
    [index |-> childDetail.index, name |-> childDetail.id, id |-> childDetail.id,
     isMain |-> FALSE, size |-> 30, category |-> 1, ignore |-> TRUE, flag |-> TRUE,
     label |-> NoValue, symbolSize |-> NoValue]

\* lines 130-142: the node pushed for a child met on the last hop
boundaryNode(childDetail, hop) ==
    [index |-> childDetail.index, name |-> childDetail.id, id |-> childDetail.id,
     isMain |-> FALSE,
     size |-> 30,
     category |-> 1,
     ignore |-> ~(hop = 2),
     flag |-> TRUE,
     label |-> NoValue, symbolSize |-> NoValue]

\* lines 145-151
link(nodeDetail, childDetail) ==
    [source |-> nodeDetail.id, target |-> childDetail.id,
     sourceIndex |-> nodeDetail.index, targetIndex |-> childDetail.index]

\* Mutant of isBiggest: the parent need not be in biggestList and the
\* ratio is taken against the parent's own retained size.
isBiggest_NoChain(big, rootDistance, nodeDetail, childDetail) ==
    /\ abs(rootDistance - childDetail.distance) < config.leak_limit
    /\ childDetail.retainedSize * config.node_limit > nodeDetail.retainedSize

\* Mutant of isBiggest: the size ratio is not tested.
isBiggest_NoRatio(big, rootDistance, nodeDetail, childDetail) ==
    /\ abs(rootDistance - childDetail.distance) < config.leak_limit
    /\ nodeDetail.index \in DOMAIN big

\* line 122: the test that records a child in biggestList.  The quotient
\* child/parent > 1/childrenLimit is compared exactly: all three numbers are
\* positive integers.
isBiggest(big, rootDistance, nodeDetail, childDetail) ==
    /\ abs(rootDistance - childDetail.distance) < config.leak_limit
    /\ nodeDetail.index \in DOMAIN big
    /\ childDetail.retainedSize * config.node_limit > big[nodeDetail.index].retainedSize

\* line 123
putBiggest(big, nodeDetail, childDetail) ==
    [x \in DOMAIN big \cup {childDetail.index} |->
        IF x = childDetail.index
        THEN [id |-> childDetail.id, source |-> nodeDetail.index,
              retainedSize |-> childDetail.retainedSize]
        ELSE big[x]]

\* Mutant of isLastHop: no hop is taken for the last one.
isLastHop_Never(hop) == FALSE

\* line 126: the hop is the last one
isLastHop(hop) == (hop = config.distance_limit)

\* Mutant of skipRecorded: a recorded child is emitted again.
skipRecorded_Never(st, childDetail, lastHop) == FALSE

\* line 127: on the last hop the callback returns for a child already recorded
skipRecorded(st, childDetail, lastHop) ==
    lastHop /\ childDetail.id \in st.rec

\* lines 114-151: the callback of children.forEach for one child.  st carries
\* what the callback mutates: tmp (tmpIndexArr), big (biggestList),
\* rec (isRecorded), nodes, links.
childStep(st, nodeDetail, cIndex, rootDistance, hop) ==
    LET childDetail == serialize(cIndex)
        lastHop == isLastHop(hop)
        tmp1 == IF childDetail.id \notin st.rec
                THEN Append(st.tmp, cIndex) ELSE st.tmp
        big1 == IF isBiggest(st.big, rootDistance, nodeDetail, childDetail)
                THEN putBiggest(st.big, nodeDetail, childDetail) ELSE st.big
    IN  IF skipRecorded(st, childDetail, lastHop)
        THEN [st EXCEPT !.tmp = tmp1, !.big = big1]
        ELSE [tmp |-> tmp1,
              big |-> big1,
              rec |-> IF lastHop THEN st.rec \cup {childDetail.id} ELSE st.rec,
              nodes |-> IF lastHop
                        THEN Append(st.nodes, boundaryNode(childDetail, hop))
                        ELSE st.nodes,
              links |-> Append(st.links, link(nodeDetail, childDetail))]

RECURSIVE childLoop(_, _, _, _, _, _)
\* line 113: children.forEach
childLoop(st, nodeDetail, children, k, rootDistance, hop) ==
    IF k > Len(children) THEN st
    ELSE childLoop(childStep(st, nodeDetail, children[k], rootDistance, hop),
                   nodeDetail, children, k + 1, rootDistance, hop)

\* lines 78-152: the callback of leakIndexList.forEach for one frontier index
parentStep(st, index, leakIndex, rootDistance, hop) ==
    LET nodeDetail == serialize(index)
        children == retained(nodeDetail)
    IN  IF nodeDetail.id \in st.rec THEN st
        ELSE childLoop([st EXCEPT !.rec = @ \cup {nodeDetail.id},
                                  !.nodes = Append(@, parentNode(nodeDetail, leakIndex))],
                       nodeDetail, children, 1, rootDistance, hop)

\* ---------------------------------------------------------- setExpandOff
\* lines 11-13: the first node whose index is the given one, as a position
\* in nodes; 0 when there is none (the filter's [0] is undefined)
catchNode(nodes, index) ==
    LET hits == {k \in 1..Len(nodes) : nodes[k].index = index}
    IN IF hits = {} THEN 0 ELSE CHOOSE k \in hits : \A j \in hits : k <= j

\* Mutant of revealNode: the linked node is flagged and not made visible.
revealNode_KeepIgnore(node) == [node EXCEPT !.flag = TRUE]

\* lines 201-204: the callback that reveals a linked node
revealNode(node) == [node EXCEPT !.ignore = FALSE, !.flag = TRUE]

\* Mutant of expandSelf: the clicked node is not made visible.
expandSelf_KeepIgnore(node) == [node EXCEPT !.flag = FALSE, !.category = 0]

\* Mutant of expandSelf: the node also gets the size of a main node.
expandSelf_AsMain(node) ==
    [node EXCEPT !.ignore = FALSE, !.flag = FALSE, !.category = 0, !.size = 40]

\* lines 207-211: the callback that marks the clicked node expanded
expandSelf(node) == [node EXCEPT !.ignore = FALSE, !.flag = FALSE, !.category = 0]

\* Mutant of hideNode: the flag is left as it was.
hideNode_KeepFlag(node) == [node EXCEPT !.ignore = TRUE]

\* lines 228-231: the callback that hides a linked node
hideNode(node) == [node EXCEPT !.ignore = TRUE, !.flag = TRUE]

\* Mutant of collapseSelf: the category is left as it was.
collapseSelf_KeepCategory(node) == [node EXCEPT !.ignore = TRUE, !.flag = TRUE]

\* lines 235-239: the callback that marks the clicked node collapsed
collapseSelf(node) == [node EXCEPT !.ignore = TRUE, !.flag = TRUE, !.category = 1]

\* lines 19-25: findNode(nodes, 'id', id, cb), cb named by kind
findNode(nodes, id, kind) ==
    [k \in 1..Len(nodes) |->
        IF nodes[k].id = id
        THEN CASE kind = "reveal" -> revealNode(nodes[k])
               [] kind = "expandSelf" -> expandSelf(nodes[k])
               [] kind = "hide" -> hideNode(nodes[k])
               [] kind = "collapseSelf" -> collapseSelf(nodes[k])
        ELSE nodes[k]]

RECURSIVE forLinksNodes(_, _, _, _)
\* lines 200-205 and 227-232: for (p in linksNodes) findNode(...)
forLinksNodes(nodes, linksNodes, p, kind) ==
    IF p > Len(linksNodes) THEN nodes
    ELSE forLinksNodes(findNode(nodes, linksNodes[p], kind), linksNodes, p + 1, kind)

RECURSIVE expandScan_AllLinks(_, _, _, _)
\* Mutant of expandScan: the source of a link is not compared with data.id.
expandScan_AllLinks(links, dataId, m, linksNodes) ==
    IF m > Len(links) THEN linksNodes
    ELSE expandScan_AllLinks(links, dataId, m + 1,
                             Append(linksNodes, links[m].target))

RECURSIVE expandScan(_, _, _, _)
\* lines 194-198: the targets of the links leaving data.id, in list order
expandScan(links, dataId, m, linksNodes) ==
    IF m > Len(links) THEN linksNodes
    ELSE expandScan(links, dataId, m + 1,
                    IF links[m].source = dataId
                    THEN Append(linksNodes, links[m].target) ELSE linksNodes)

\* Mutant of innerScan: targets found earlier are not followed.
innerScan_None(links, dataId, m, linksNodes) == linksNodes

\* lines 217-223: the inner scan for link m.  for-in ranges over the entries
\* linksNodes holds when the scan begins; each match appends the target.
innerScan(links, dataId, m, linksNodes) ==
    LET hits == {n \in 1..Len(linksNodes) :
                    links[m].source = linksNodes[n] /\ links[m].target # dataId}
    IN linksNodes \o [j \in 1..Cardinality(hits) |-> links[m].target]

RECURSIVE collapseScan(_, _, _, _)
\* lines 213-224: one pass over the links
collapseScan(links, dataId, m, linksNodes) ==
    IF m > Len(links) THEN linksNodes
    ELSE LET l1 == IF links[m].source = dataId
                   THEN Append(linksNodes, links[m].target) ELSE linksNodes
         IN collapseScan(links, dataId, m + 1, innerScan(links, dataId, m, l1))

\* lines 193-211
expandBranch(graph, data) ==
    LET linksNodes == expandScan(graph.links, data.id, 1, <<>>)
    IN findNode(forLinksNodes(graph.nodes, linksNodes, 1, "reveal"),
                data.id, "expandSelf")

\* lines 212-240
collapseBranch(graph, data) ==
    LET linksNodes == collapseScan(graph.links, data.id, 1, <<>>)
    IN findNode(forLinksNodes(graph.nodes, linksNodes, 1, "hide"),
                data.id, "collapseSelf")

\* lines 188-241: the nodes of the graph after setExpandOff(graph, data)
setExpandOff(graph, data) ==
    IF data.flag THEN expandBranch(graph, data) ELSE collapseBranch(graph, data)

\* ------------------------------------------------------------------ state
\* line 178: the key a finished graph is stored under
graphKey(detail) == <<detail.name, detail.id>>

\* Distance is the length of the shortest chain from the root: some node has
\* distance 0 and a node at distance k > 0 comes with one at distance k - 1.
DistanceMaps ==
    {d \in [Indices -> Distances] :
        \A x \in Indices : d[x] > 0 => \E y \in Indices : d[y] = d[x] - 1}

\* The snapshots considered.  Every node lists every
\* other index as a child (the distance filter of line 84 selects among them),
\* except at most one node, which has no children.  Every node has retained
\* size 1, except at most one node, which has any size.
ChildLists ==
    {[x \in Indices |-> IF x = e THEN <<>> ELSE SortedSeq(Indices \ {x})] :
        e \in Indices \cup {0}}

SizeMaps ==
    {[x \in Indices |-> IF x = b THEN v ELSE 1] : b \in Indices, v \in Sizes}

Snapshots ==
    {[x \in Indices |-> [index |-> x, id |-> idOf(x), name |-> "Object",
                         distance |-> d[x], retainedSize |-> r[x],
                         children |-> c[x]]] :
        d \in DistanceMaps, r \in SizeMaps, c \in ChildLists}

Configs ==
    [distance_limit : 1..MaxDistanceLimit,
     node_limit : 1..MaxNodeLimit,
     leak_limit : 2..MaxLeakLimit]

\* lines 373-381 of _analysysG: the accessor is made and heapUsed starts
\* with the leak points and the root, which are serialized for it.  An
\* index without a detail is serialized once for every place it has in
\* leakPoint.
analysisStart ==
    /\ heapUsed = [x \in Range(leakPoint) \cup {rootIndex} |-> primitive(x)]
    /\ cache = [x \in (Range(leakPoint) \cup {rootIndex}) \cap DOMAIN snapshot |->
                   snapshot[x]]
    /\ calls = [x \in Indices |->
                   IF x \in DOMAIN snapshot
                   THEN (IF x \in Range(leakPoint) \cup {rootIndex} THEN 1 ELSE 0)
                   ELSE Cardinality({k \in 1..Len(leakPoint) : leakPoint[k] = x})]
    /\ forceGraphAll = <<>>
    /\ i = 1
    /\ forceGraph = [nodes |-> <<>>, links |-> <<>>]
    /\ biggestList = <<>>
    /\ isRecorded = {}
    /\ distanceDisplay = 1
    /\ leakIndexList = <<>>
    /\ tmpIndexArr = <<>>
    /\ keysLeft = <<>>
    /\ pc = "leak"
    /\ lastToggle = [key |-> <<>>, id |-> 0, branch |-> "none",
                     roundTrip |-> FALSE]
    /\ scan = [pc |-> "idle"]

Init ==
    /\ snapshot \in Snapshots
    /\ config \in Configs
    /\ leakPoint \in {<<x>> : x \in Indices}
    /\ analysisStart

\* Mutant of whileCond: the loop ends one hop early.
whileCond_Early(list, hop) == list # <<>> /\ hop < config.distance_limit

\* line 75: the loop condition
whileCond(list, hop) == list # <<>> /\ hop <= config.distance_limit

\* lines 61-73: a leak point's traversal starts
BeginLeak ==
    /\ pc = "leak"
    /\ materializes(leakPoint[i])
    /\ LET leak == leakPoint[i]
       IN /\ forceGraph' = [nodes |-> <<>>, links |-> <<>>]
          /\ biggestList' = (leak :> [id |-> serialize(leak).id, source |-> NoSource,
                                       retainedSize |-> serialize(leak).retainedSize])
          /\ isRecorded' = {}
          /\ distanceDisplay' = 1
          /\ leakIndexList' = <<leak>>
          /\ tmpIndexArr' = <<>>
          /\ pc' = IF whileCond(<<leak>>, 1) THEN "hop" ELSE "heap"
          /\ cache' = cached({leak})
          /\ calls' = called({leak})
    /\ UNCHANGED <<scan, snapshot, config, leakPoint, heapUsed, forceGraphAll, i,
                   keysLeft, lastToggle>>

\* lines 77-153: one frontier index is processed
ProcessIndex ==
    /\ pc = "hop"
    /\ leakIndexList # <<>>
    /\ \A c \in Range(serialize(Head(leakIndexList)).children) : materializes(c)
    /\ LET st == parentStep([tmp |-> tmpIndexArr, big |-> biggestList,
                             rec |-> isRecorded, nodes |-> forceGraph.nodes,
                             links |-> forceGraph.links],
                            Head(leakIndexList), leakPoint[i],
                            serialize(leakPoint[i]).distance, distanceDisplay)
       IN /\ tmpIndexArr' = st.tmp
          /\ biggestList' = st.big
          /\ isRecorded' = st.rec
          /\ forceGraph' = [nodes |-> st.nodes, links |-> st.links]
    /\ leakIndexList' = Tail(leakIndexList)
    /\ cache' = cached({Head(leakIndexList)}
                       \cup Range(serialize(Head(leakIndexList)).children))
    /\ calls' = called({Head(leakIndexList)}
                       \cup Range(serialize(Head(leakIndexList)).children))
    /\ UNCHANGED <<scan, snapshot, config, leakPoint, heapUsed, forceGraphAll, i,
                   distanceDisplay, keysLeft, pc, lastToggle>>

\* lines 155-156 and the loop test of line 75
EndHop ==
    /\ pc = "hop"
    /\ leakIndexList = <<>>
    /\ distanceDisplay' = distanceDisplay + 1
    /\ leakIndexList' = tmpIndexArr
    /\ tmpIndexArr' = <<>>
    /\ pc' = IF whileCond(tmpIndexArr, distanceDisplay + 1) THEN "hop" ELSE "heap"
    /\ UNCHANGED <<scan, snapshot, cache, calls, config, leakPoint, heapUsed,
                   forceGraphAll, i, forceGraph, biggestList, isRecorded, keysLeft,
                   lastToggle>>

\* Mutant of StoreHeapUsed: heapUsed is not extended.
StoreHeapUsed_Skip ==
    /\ pc = "heap"
    /\ keysLeft' = SortedSeq(DOMAIN biggestList)
    /\ pc' = "expand"
    /\ UNCHANGED <<scan, snapshot, cache, calls, config, leakPoint, heapUsed,
                   forceGraphAll, i, forceGraph, biggestList, isRecorded,
                   distanceDisplay, leakIndexList, tmpIndexArr, lastToggle>>

\* lines 159-161, then Object.keys(biggestList) of line 163 (integer keys
\* come in ascending order)
StoreHeapUsed ==
    /\ pc = "heap"
    /\ LET touched == {forceGraph.nodes[k].index : k \in 1..Len(forceGraph.nodes)}
       IN /\ heapUsed' = [x \in DOMAIN heapUsed \cup touched |->
                             IF x \in touched THEN serialize(x) ELSE heapUsed[x]]
          /\ cache' = cached(touched)
          /\ calls' = called(touched)
    /\ keysLeft' = SortedSeq(DOMAIN biggestList)
    /\ pc' = "expand"
    /\ UNCHANGED <<scan, snapshot, config, leakPoint, forceGraphAll, i, forceGraph,
                   biggestList, isRecorded, distanceDisplay, leakIndexList,
                   tmpIndexArr, lastToggle>>

\* lines 163-168: one key of biggestList
PreExpand ==
    /\ pc = "expand"
    /\ keysLeft # <<>>
    /\ LET k == catchNode(forceGraph.nodes, Head(keysLeft))
       IN forceGraph' = IF k = 0 THEN forceGraph
                        ELSE [forceGraph EXCEPT
                                !.nodes = setExpandOff(forceGraph, forceGraph.nodes[k])]
    /\ keysLeft' = Tail(keysLeft)
    /\ UNCHANGED <<scan, snapshot, cache, calls, config, leakPoint, heapUsed,
                   forceGraphAll, i, biggestList, isRecorded, distanceDisplay,
                   leakIndexList, tmpIndexArr, pc, lastToggle>>

\* lines 170-173
withLabels(nodes) ==
    [k \in 1..Len(nodes) |->
        [nodes[k] EXCEPT !.label = nodes[k].name, !.symbolSize = nodes[k].size]]

\* lines 170-178, and the for loop of line 60 moving to the next leak point
Finish ==
    /\ pc = "expand"
    /\ keysLeft = <<>>
    /\ LET done == [nodes |-> withLabels(forceGraph.nodes),
                    links |-> forceGraph.links,
                    index |-> leakPoint[i]]
           key == graphKey(serialize(leakPoint[i]))
       IN forceGraphAll' = [x \in DOMAIN forceGraphAll \cup {key} |->
                               IF x = key THEN done ELSE forceGraphAll[x]]
    /\ cache' = cached({leakPoint[i]})
    /\ calls' = called({leakPoint[i]})
    /\ i' = i + 1
    /\ pc' = IF i + 1 <= Len(leakPoint) THEN "leak" ELSE "done"
    /\ UNCHANGED <<scan, snapshot, config, leakPoint, heapUsed, forceGraph, biggestList,
                   isRecorded, distanceDisplay, leakIndexList, tmpIndexArr,
                   keysLeft, lastToggle>>

\* A click on node k of a finished graph: setExpandOff(graph, nodes[k])
Toggle(key, k) ==
    /\ pc = "done"
    /\ LET graph == forceGraphAll[key]
           data == graph.nodes[k]
       IN /\ forceGraphAll' = [forceGraphAll EXCEPT
                                 ![key].nodes = setExpandOff(graph, data)]
          /\ lastToggle' = [key |-> key, id |-> data.id,
                            branch |-> IF data.flag THEN "expand" ELSE "collapse",
                            roundTrip |-> /\ ~data.flag
                                          /\ lastToggle.branch = "expand"
                                          /\ lastToggle.key = key
                                          /\ lastToggle.id = data.id]
    /\ UNCHANGED <<scan, snapshot, cache, calls, config, leakPoint, heapUsed, i,
                   forceGraph, biggestList, isRecorded, distanceDisplay,
                   leakIndexList, tmpIndexArr, keysLeft, pc>>

Click ==
    \E key \in DOMAIN forceGraphAll :
        \E k \in 1..Len(forceGraphAll[key].nodes) : Toggle(key, k)

Next ==
    \/ BeginLeak
    \/ ProcessIndex
    \/ EndHop
    \/ StoreHeapUsed
    \/ PreExpand
    \/ Finish
    \/ Click

Spec == Init /\ [][Next]_vars

\* ------------------------------------------- an index without a detail
\* The snapshots in which one index m has no detail.  The others have
\* retained size 1 and list every other index as a child, m included or
\* not; at most one node has no children.
MissingSnapshots ==
    UNION {
        {[x \in Indices \ {m} |->
             [index |-> x, id |-> idOf(x), name |-> "Object",
              distance |-> d[x], retainedSize |-> 1,
              children |-> IF x = e THEN <<>>
                           ELSE SortedSeq(Indices \ ({x} \cup U))]] :
            e \in Indices \cup {0}, U \in {{}, {m}},
            d \in {f \in DistanceMaps :
                     \A x \in Indices \ {m} :
                        f[x] > 0 => \E y \in Indices \ {m} : f[y] = f[x] - 1}} :
        m \in Indices}

\* The smallest limits for the list of biggest retainers.
MissingConfigs == {c \in Configs : c.node_limit = 1 /\ c.leak_limit = 2}

\* Two leak points, either of which may be the index without a detail.
InitMissing ==
    /\ snapshot \in MissingSnapshots
    /\ config \in MissingConfigs
    /\ leakPoint \in {<<x, y>> : x, y \in Indices} \ {<<x, x>> : x \in Indices}
    /\ analysisStart

\* The children of the frontier index before the first one without a detail.
beforeMissing(children) ==
    LET k0 == CHOOSE k \in 1..Len(children) :
                 /\ ~materializes(children[k])
                 /\ \A j \in 1..(k - 1) : materializes(children[j])
    IN {children[j] : j \in 1..k0}

\* A TypeError leaves createForceGraph: line 72 reads .distance of the
\* undefined detail of a leak point, line 84 that of a child.  Nothing
\* catches it: _analysysG ends without a result.
Throw ==
    /\ \/ /\ pc = "leak"
          /\ ~materializes(leakPoint[i])
          /\ calls' = [calls EXCEPT ![leakPoint[i]] = @ + 1]
          /\ cache' = cache
       \/ /\ pc = "hop"
          /\ leakIndexList # <<>>
          /\ LET nodeDetail == serialize(Head(leakIndexList))
                 seen == {Head(leakIndexList)} \cup beforeMissing(nodeDetail.children)
             IN /\ \E c \in Range(nodeDetail.children) : ~materializes(c)
                /\ cache' = cached(seen)
                /\ calls' = called(seen)
    /\ pc' = "error"
    /\ UNCHANGED <<scan, snapshot, config, leakPoint, heapUsed, forceGraphAll, i,
                   forceGraph, biggestList, isRecorded, distanceDisplay,
                   leakIndexList, tmpIndexArr, keysLeft, lastToggle>>

NextMissing == Next \/ Throw

SpecMissing == InitMissing /\ [][NextMissing]_vars

\* --------------------------------- the Collapse branch, statement by statement
\* Any graph will do for setExpandOff: links between any two ids, loops and
\* links back to the clicked node among them, in any order.
ScanIds == 1..MaxScanIds

ScanLinks ==
    UNION {[1..len -> [source : ScanIds, target : ScanIds]] : len \in 0..MaxScanLinks}

\* One node per id, each with flag = false: a click on it collapses it.
ScanNodes ==
    [k \in ScanIds |-> [index |-> k, id |-> k, name |-> k, isMain |-> FALSE,
                        size |-> 30, category |-> 0, ignore |-> FALSE,
                        flag |-> FALSE, label |-> k, symbolSize |-> 30]]

\* lines 188-191 and the else of line 212: setExpandOff(graph, data) begins
InitCollapse ==
    /\ scan \in {[nodes |-> ScanNodes, links |-> links, dataId |-> d,
                  m |-> 1, n |-> 1, len |-> 0, linksNodes |-> <<>>, p |-> 1,
                  pc |-> "outer"] : links \in ScanLinks, d \in ScanIds}
    /\ snapshot = <<>>
    /\ cache = <<>>
    /\ calls = <<>>
    /\ config = [distance_limit |-> 1, node_limit |-> 1, leak_limit |-> 2]
    /\ leakPoint = <<>>
    /\ heapUsed = <<>>
    /\ forceGraphAll = <<>>
    /\ i = 1
    /\ forceGraph = [nodes |-> <<>>, links |-> <<>>]
    /\ biggestList = <<>>
    /\ isRecorded = {}
    /\ distanceDisplay = 1
    /\ leakIndexList = <<>>
    /\ tmpIndexArr = <<>>
    /\ keysLeft = <<>>
    /\ pc = "toggle"
    /\ lastToggle = [key |-> <<>>, id |-> 0, branch |-> "collapse",
                     roundTrip |-> FALSE]

\* What setExpandOff leaves alone while it runs.
scanFrame ==
    UNCHANGED <<snapshot, cache, calls, config, leakPoint, heapUsed, forceGraphAll,
                i, forceGraph, biggestList, isRecorded, distanceDisplay,
                leakIndexList, tmpIndexArr, keysLeft, pc, lastToggle>>

\* Mutant of innerKeys: the scan also visits the entries it appends.
innerKeys_Live(linksNodes, len) == Len(linksNodes)

\* line 218: for (let n in linksNodes) enumerates the keys linksNodes has
\* when the loop begins (len); entries pushed meanwhile are not visited.
innerKeys(linksNodes, len) == len

\* lines 213-217: the outer loop takes link m, pushes its target when it
\* leaves data.id, and the inner loop begins; after the last link the loop
\* of line 227 begins
OuterStep ==
    /\ scan.pc = "outer"
    /\ IF scan.m <= Len(scan.links)
       THEN LET l1 == IF scan.links[scan.m].source = scan.dataId
                      THEN Append(scan.linksNodes, scan.links[scan.m].target)
                      ELSE scan.linksNodes
            IN scan' = [scan EXCEPT !.linksNodes = l1, !.len = Len(l1), !.n = 1,
                                    !.pc = "inner"]
       ELSE scan' = [scan EXCEPT !.len = Len(scan.linksNodes), !.p = 1,
                                 !.pc = "hide"]
    /\ scanFrame

\* lines 218-222: one entry of the inner loop; after the last one the outer
\* loop moves to the next link
InnerStep ==
    /\ scan.pc = "inner"
    /\ IF scan.n <= innerKeys(scan.linksNodes, scan.len)
       THEN scan' = [scan EXCEPT
                       !.linksNodes =
                          IF /\ scan.links[scan.m].source = scan.linksNodes[scan.n]
                             /\ scan.links[scan.m].target # scan.dataId
                          THEN Append(@, scan.links[scan.m].target) ELSE @,
                       !.n = @ + 1]
       ELSE scan' = [scan EXCEPT !.m = @ + 1, !.pc = "outer"]
    /\ scanFrame

\* lines 226-233: one entry of linksNodes is hidden; after the last one
\* lines 235-239 collapse the clicked node and setExpandOff returns
HideStep ==
    /\ scan.pc = "hide"
    /\ IF scan.p <= scan.len
       THEN scan' = [scan EXCEPT
                       !.nodes = findNode(@, scan.linksNodes[scan.p], "hide"),
                       !.p = @ + 1]
       ELSE scan' = [scan EXCEPT
                       !.nodes = findNode(@, scan.dataId, "collapseSelf"),
                       !.pc = "done"]
    /\ scanFrame

NextCollapse == OuterStep \/ InnerStep \/ HideStep

\* The statements of one call run one after the other: a step that can be
\* taken is taken.
SpecCollapse == InitCollapse /\ [][NextCollapse]_vars /\ WF_vars(NextCollapse)

\* ------------------------------------------------------- reference notions
\* A retained edge of the snapshot: c is listed as a child of p and its
\* distance is one more than p's.
RetainedEdge(p, c) ==
    /\ c \in Range(snapshot[p].children)
    /\ snapshot[c].distance = snapshot[p].distance + 1

RECURSIVE ReachWithin(_, _)
\* The indices reachable from leak by at most n retained edges.
ReachWithin(leak, n) ==
    IF n = 0 THEN {leak}
    ELSE LET R == ReachWithin(leak, n - 1)
         IN R \cup {c \in Indices : \E p \in R : RetainedEdge(p, c)}

\* The parents the traversal of a leak processes: within distance_limit - 1
\* retained edges of it.
ProcessedParents(leak) == ReachWithin(leak, config.distance_limit - 1)

\* createForceGraph has returned and nobody has clicked yet.
Built == pc = "done" /\ lastToggle.branch = "none"

\* The finished graph of a leak point.
GraphOf(leak) == forceGraphAll[graphKey(snapshot[leak])]

NodeIndices(graph) == {graph.nodes[k].index : k \in 1..Len(graph.nodes)}
LinkPairs(graph) ==
    {<<graph.links[k].sourceIndex, graph.links[k].targetIndex>> :
        k \in 1..Len(graph.links)}

\* -------------------------------------------------------------------- C1
UniqueIds(nodes) ==
    \A a, b \in 1..Len(nodes) : a # b => nodes[a].id # nodes[b].id

\* C1: no two nodes of a graph have the same id, in the graph under
\* construction and in every finished graph.
C1_NodeIdsUnique ==
    /\ UniqueIds(forceGraph.nodes)
    /\ \A key \in DOMAIN forceGraphAll : UniqueIds(forceGraphAll[key].nodes)

\* A finished graph holding a node that is a retained child of two processed
\* parents and was emitted as a last-hop boundary child.
C1_Witness ==
    /\ Built
    /\ \E leak \in Range(leakPoint) :
         \E c \in NodeIndices(GraphOf(leak)) :
            /\ snapshot[c].distance =
                  snapshot[leak].distance + config.distance_limit
            /\ \E p, q \in ProcessedParents(leak) :
                  p # q /\ RetainedEdge(p, c) /\ RetainedEdge(q, c)

\* -------------------------------------------------------------------- C2
\* C2: the links of a finished graph are exactly the retained edges leaving
\* the processed parents.
C2_LinksAreRetainedEdges ==
    Built =>
        \A leak \in Range(leakPoint) :
            LinkPairs(GraphOf(leak)) =
                {<<p, c>> \in ProcessedParents(leak) \X Indices : RetainedEdge(p, c)}

\* -------------------------------------------------------------------- C3
\* C3: every link goes from a node to one whose distance is one more, and an
\* index is enqueued only at the distance of its hop.
C3_LinkDistance ==
    /\ \A k \in 1..Len(forceGraph.links) :
          snapshot[forceGraph.links[k].targetIndex].distance =
             snapshot[forceGraph.links[k].sourceIndex].distance + 1
    /\ \A key \in DOMAIN forceGraphAll :
          \A k \in 1..Len(forceGraphAll[key].links) :
             LET l == forceGraphAll[key].links[k]
             IN /\ snapshot[l.targetIndex].distance = snapshot[l.sourceIndex].distance + 1
                /\ RetainedEdge(l.sourceIndex, l.targetIndex)
    /\ pc = "hop" =>
          /\ \A k \in 1..Len(tmpIndexArr) :
                snapshot[tmpIndexArr[k]].distance =
                   snapshot[leakPoint[i]].distance + distanceDisplay
          /\ \A k \in 1..Len(leakIndexList) :
                snapshot[leakIndexList[k]].distance =
                   snapshot[leakPoint[i]].distance + distanceDisplay - 1

\* A finished graph with a link whose source also lists a child two
\* distances further, which is no link target of it.
C3_Witness ==
    /\ Built
    /\ \E leak \in Range(leakPoint) :
         \E pair \in LinkPairs(GraphOf(leak)) :
            \E c \in Range(snapshot[pair[1]].children) :
               /\ snapshot[c].distance = snapshot[pair[1]].distance + 2
               /\ <<pair[1], c>> \notin LinkPairs(GraphOf(leak))

\* -------------------------------------------------------------------- C4
\* C4: the nodes of a finished graph are exactly the indices within
\* distance_limit retained edges of the leak point; with distance_limit 1
\* and one retained child the graph has 2 nodes and 1 link.
C4_NodesAreReachable ==
    Built =>
        \A leak \in Range(leakPoint) :
            /\ NodeIndices(GraphOf(leak)) = ReachWithin(leak, config.distance_limit)
            /\ (/\ config.distance_limit = 1
                /\ Cardinality({c \in Indices : RetainedEdge(leak, c)}) = 1)
               => /\ Len(GraphOf(leak).nodes) = 2
                  /\ Len(GraphOf(leak).links) = 1

\* A finished graph with distance_limit 1 whose leak point has one retained
\* child, which has a retained child of its own left out of the graph.
C4_Witness ==
    /\ Built
    /\ config.distance_limit = 1
    /\ \E leak \in Range(leakPoint) :
         /\ Cardinality({c \in Indices : RetainedEdge(leak, c)}) = 1
         /\ \E c, g \in Indices :
               /\ RetainedEdge(leak, c) /\ RetainedEdge(c, g)
               /\ c \in NodeIndices(GraphOf(leak))
               /\ g \notin NodeIndices(GraphOf(leak))

\* -------------------------------------------------------------------- C5
\* The while loop of the current leak point has ended.
TraversalDone == pc \in {"heap", "expand"}

\* The two conditions the claim names, for child c visited from parent p.
DistanceOK(leak, c) ==
    abs(snapshot[leak].distance - snapshot[c].distance) < config.leak_limit
RatioOK(p, c) ==
    snapshot[c].retainedSize * config.node_limit > snapshot[p].retainedSize

\* C5 as stated: a retained child is in biggestList iff the distance and the
\* ratio condition hold for a parent it was visited from, and nothing else
\* matters.
C5_TwoConditionsOnly ==
    TraversalDone =>
        LET leak == leakPoint[i]
        IN DOMAIN biggestList \ {leak} =
              {c \in Indices : \E p \in ProcessedParents(leak) :
                  RetainedEdge(p, c) /\ DistanceOK(leak, c) /\ RatioOK(p, c)}

RECURSIVE BiggestWithin(_, _)
\* The leak point, and the children that meet both conditions from a parent
\* already in the set, over n hops.
BiggestWithin(leak, n) ==
    IF n = 0 THEN {leak}
    ELSE LET B == BiggestWithin(leak, n - 1)
         IN B \cup {c \in Indices : \E p \in B \cap ProcessedParents(leak) :
                       RetainedEdge(p, c) /\ DistanceOK(leak, c) /\ RatioOK(p, c)}

\* C5 amended: a retained child is in biggestList iff both conditions hold
\* for a parent it was visited from that is itself in biggestList.
C5_ChainOfBiggest ==
    TraversalDone =>
        /\ DOMAIN biggestList = BiggestWithin(leakPoint[i], config.distance_limit)
        /\ \A c \in DOMAIN biggestList \ {leakPoint[i]} :
              LET p == biggestList[c].source
              IN /\ p \in DOMAIN biggestList
                 /\ RetainedEdge(p, c) /\ DistanceOK(leakPoint[i], c) /\ RatioOK(p, c)

\* A traversal that recorded a child of a parent other than the leak point:
\* the parent had been recorded on the hop before.
C5_Witness ==
    /\ TraversalDone
    /\ \E c \in DOMAIN biggestList \ {leakPoint[i]} :
          biggestList[c].source # leakPoint[i]

\* -------------------------------------------------------------------- C6
\* The pre-expansion loop of the current leak point has ended: the nodes of
\* forceGraph have the visibility the returned graph has.
PreExpansionDone == pc = "expand" /\ keysLeft = <<>>

IsExpanded(node) == ~node.ignore /\ ~node.flag /\ node.category = 0
IsCollapsed(node) == node.ignore /\ node.flag /\ node.category = 1

\* C6: after build every node whose index is a key of biggestList is
\* Expanded.
C6_BiggestAreExpanded ==
    PreExpansionDone =>
        \A k \in 1..Len(forceGraph.nodes) :
            forceGraph.nodes[k].index \in DOMAIN biggestList
               => IsExpanded(forceGraph.nodes[k])

\* -------------------------------------------------------------------- C7
\* Node index c is below 1/node_limit of the retained size of every parent
\* it was visited from.
BelowThreshold(leak, c) ==
    \A p \in ProcessedParents(leak) :
        RetainedEdge(p, c) =>
           snapshot[c].retainedSize * config.node_limit < snapshot[p].retainedSize

\* C7: a non-leak node below the threshold is not in biggestList and leaves
\* build with flag = true and category = 1.
C7_SmallNeverExpanded ==
    /\ TraversalDone =>
          \A c \in Indices \ {leakPoint[i]} :
             BelowThreshold(leakPoint[i], c) /\ c \in ReachWithin(leakPoint[i], config.distance_limit)
                => c \notin DOMAIN biggestList
    /\ PreExpansionDone =>
          \A k \in 1..Len(forceGraph.nodes) :
             LET n == forceGraph.nodes[k]
             IN (n.index # leakPoint[i] /\ BelowThreshold(leakPoint[i], n.index))
                   => n.flag /\ n.category = 1

\* A returned graph with a node below the threshold that an expanded parent
\* has revealed.
C7_Witness ==
    /\ PreExpansionDone
    /\ \E k \in 1..Len(forceGraph.nodes) :
          LET n == forceGraph.nodes[k]
          IN /\ n.index # leakPoint[i]
             /\ BelowThreshold(leakPoint[i], n.index)
             /\ ~n.ignore
             /\ \E j \in 1..Len(forceGraph.nodes) :
                   /\ RetainedEdge(forceGraph.nodes[j].index, n.index)
                   /\ IsExpanded(forceGraph.nodes[j])

\* -------------------------------------------------------------------- C8
\* The ids that are targets of a link leaving id.
Targets(links, id) ==
    {links[k].target : k \in {j \in 1..Len(links) : links[j].source = id}}

\* C8: a click on a node whose flag is true makes it Expanded, makes every
\* target of a link leaving it visible with flag = true, and changes no
\* other node.
C8_ExpandEffect ==
    [][(lastToggle' # lastToggle /\ lastToggle'.branch = "expand") =>
          LET key == lastToggle'.key
              before == forceGraphAll[key].nodes
              after == forceGraphAll'[key].nodes
              T == Targets(forceGraphAll[key].links, lastToggle'.id)
          IN /\ Len(after) = Len(before)
             /\ \A k \in 1..Len(before) :
                   after[k] =
                      IF before[k].id = lastToggle'.id
                      THEN [before[k] EXCEPT !.ignore = FALSE, !.flag = FALSE,
                                             !.category = 0]
                      ELSE IF before[k].id \in T
                      THEN [before[k] EXCEPT !.ignore = FALSE, !.flag = TRUE]
                      ELSE before[k]
             /\ \A other \in DOMAIN forceGraphAll \ {key} :
                   forceGraphAll'[other] = forceGraphAll[other]
             /\ forceGraphAll'[key].links = forceGraphAll[key].links]_vars

\* An Expand click has acted on a node with a linked child, in a graph that
\* also holds a node that is neither.
C8_Witness ==
    /\ pc = "done"
    /\ lastToggle.branch = "expand"
    /\ LET g == forceGraphAll[lastToggle.key]
           T == Targets(g.links, lastToggle.id)
       IN /\ T # {}
          /\ \E k \in 1..Len(g.nodes) :
                g.nodes[k].id = lastToggle.id /\ IsExpanded(g.nodes[k])
          /\ \E k \in 1..Len(g.nodes) :
                g.nodes[k].id \in T /\ ~g.nodes[k].ignore /\ g.nodes[k].flag
          /\ \E k \in 1..Len(g.nodes) :
                g.nodes[k].id \notin T \cup {lastToggle.id}

\* -------------------------------------------------------------------- C9
RECURSIVE Closure(_, _)
\* S with every id reachable from it through links.
Closure(links, S) ==
    LET S2 == S \cup UNION {Targets(links, id) : id \in S}
    IN IF S2 = S THEN S ELSE Closure(links, S2)

\* The ids reachable from id through one or more links.
Descendants(links, id) == Closure(links, Targets(links, id))

\* The nodes after a Collapse of id: every descendant hidden with
\* flag = true, the node itself Collapsed.
CollapsedBelow(nodes, links, id) ==
    \A k \in 1..Len(nodes) :
        /\ nodes[k].id \in Descendants(links, id) => nodes[k].ignore /\ nodes[k].flag
        /\ nodes[k].id = id => IsCollapsed(nodes[k])

\* The links in another order.
Reordered(links, perm) == [k \in 1..Len(links) |-> links[perm[k]]]

\* Every link into a node is stored before every link out of it.
InBuildOrder(links) ==
    \A a, b \in 1..Len(links) : links[b].target = links[a].source => b < a

\* C9 as stated: Collapse hides the whole transitive closure whatever the
\* order of the links list.
C9_CollapseAnyOrder ==
    Built =>
        \A key \in DOMAIN forceGraphAll :
            LET g == forceGraphAll[key]
            IN \A k \in 1..Len(g.nodes) :
                  ~g.nodes[k].flag =>
                     \A perm \in Permutations(1..Len(g.links)) :
                        CollapsedBelow(
                           setExpandOff([g EXCEPT !.links = Reordered(g.links, perm)],
                                        g.nodes[k]),
                           g.links, g.nodes[k].id)

\* C9 amended: build stores every link into a node before every link out of
\* it; for links stored so, Collapse hides the whole transitive closure and
\* leaves the clicked node Collapsed.
C9_CollapseInBuildOrder ==
    /\ \A key \in DOMAIN forceGraphAll : InBuildOrder(forceGraphAll[key].links)
    /\ (pc = "done" /\ lastToggle.branch = "collapse") =>
          LET g == forceGraphAll[lastToggle.key]
          IN CollapsedBelow(g.nodes, g.links, lastToggle.id)
    /\ Built =>
          \A key \in DOMAIN forceGraphAll :
             LET g == forceGraphAll[key]
             IN \A k \in 1..Len(g.nodes) :
                   ~g.nodes[k].flag =>
                      \A perm \in Permutations(1..Len(g.links)) :
                         InBuildOrder(Reordered(g.links, perm)) =>
                            CollapsedBelow(
                               setExpandOff([g EXCEPT !.links = Reordered(g.links, perm)],
                                            g.nodes[k]),
                               g.links, g.nodes[k].id)

\* A Collapse click has acted on a node with a descendant two links away
\* that was visible before build returned.
C9_Witness ==
    /\ pc = "done"
    /\ lastToggle.branch = "collapse"
    /\ LET g == forceGraphAll[lastToggle.key]
       IN \E id \in Descendants(g.links, lastToggle.id) \ Targets(g.links, lastToggle.id) :
             \E k \in 1..Len(forceGraph.nodes) :
                forceGraph.nodes[k].id = id /\ ~forceGraph.nodes[k].ignore

\* ------------------------------------------------------------------- C10
\* C10: after an Expand click and a second click on the same node, every
\* node reachable from it through links is hidden and the node has
\* category 1.
C10_RoundTrip ==
    (pc = "done" /\ lastToggle.roundTrip) =>
        LET g == forceGraphAll[lastToggle.key]
        IN \A k \in 1..Len(g.nodes) :
              /\ g.nodes[k].id \in Descendants(g.links, lastToggle.id)
                    => g.nodes[k].ignore
              /\ g.nodes[k].id = lastToggle.id => g.nodes[k].category = 1

\* A round trip has been made on a node that has descendants and was not
\* Expanded when build returned.
C10_Witness ==
    /\ pc = "done"
    /\ lastToggle.roundTrip
    /\ Descendants(forceGraphAll[lastToggle.key].links, lastToggle.id) # {}
    /\ \E k \in 1..Len(forceGraph.nodes) :
          forceGraph.nodes[k].id = lastToggle.id /\ forceGraph.nodes[k].category = 1

\* ------------------------------------------------------------------- C11
\* The click lastToggle' records was made on a node no link leaves.
LeafClick ==
    /\ lastToggle' # lastToggle
    /\ Targets(forceGraphAll[lastToggle'.key].links, lastToggle'.id) = {}

\* C11 as stated: a click on a node that is the source of no link changes
\* ignore, flag and category of no node, the clicked node included.
C11_LeafToggleNoOp ==
    [][LeafClick => forceGraphAll' = forceGraphAll]_vars

\* C11 amended: a click on a node that is the source of no link changes no
\* other node and no link; the clicked node becomes Expanded when its flag
\* was true and Collapsed when it was false.
C11_LeafToggleSelfOnly ==
    [][LeafClick =>
          LET key == lastToggle'.key
              before == forceGraphAll[key].nodes
              after == forceGraphAll'[key].nodes
          IN /\ DOMAIN forceGraphAll' = DOMAIN forceGraphAll
             /\ Len(after) = Len(before)
             /\ \A k \in 1..Len(before) :
                   after[k] =
                      IF before[k].id # lastToggle'.id THEN before[k]
                      ELSE IF before[k].flag
                      THEN [before[k] EXCEPT !.ignore = FALSE, !.flag = FALSE,
                                             !.category = 0]
                      ELSE [before[k] EXCEPT !.ignore = TRUE, !.flag = TRUE,
                                             !.category = 1]
             /\ \A other \in DOMAIN forceGraphAll \ {key} :
                   forceGraphAll'[other] = forceGraphAll[other]
             /\ forceGraphAll'[key].links = forceGraphAll[key].links]_vars

\* A click has collapsed a node no link leaves, which build had returned
\* hidden and an earlier click had expanded, in a graph with links.
C11_Witness ==
    /\ pc = "done"
    /\ lastToggle.branch = "collapse"
    /\ LET g == forceGraphAll[lastToggle.key]
       IN /\ Targets(g.links, lastToggle.id) = {}
          /\ g.links # <<>>
          /\ \E k \in 1..Len(g.nodes) :
                g.nodes[k].id = lastToggle.id /\ IsCollapsed(g.nodes[k])
          /\ \E k \in 1..Len(forceGraph.nodes) :
                forceGraph.nodes[k].id = lastToggle.id /\ forceGraph.nodes[k].ignore

\* ------------------------------------------------------------------- C12
\* C12: an index without a detail does not make build fail: it is left out
\* of every graph, and every leak point that has a detail gets its graph.
C12_MissingIndexExcluded ==
    /\ pc # "error"
    /\ pc = "done" =>
          \A k \in 1..Len(leakPoint) :
             materializes(leakPoint[k]) =>
                /\ graphKey(serialize(leakPoint[k])) \in DOMAIN forceGraphAll
                /\ NodeIndices(forceGraphAll[graphKey(serialize(leakPoint[k]))])
                      \subseteq DOMAIN snapshot

IsBoundary(node) ==
    snapshot[node.index].distance =
       snapshot[leakPoint[i]].distance + config.distance_limit

\* The leak point has one retained child and distance_limit is 1.
SingleChildScenario ==
    /\ config.distance_limit = 1
    /\ Cardinality({c \in Indices : RetainedEdge(leakPoint[i], c)}) = 1

\* C14 as stated: in the returned graph a boundary node is visible only if
\* distance_limit is 2, and the single retained child of a leak point built
\* with distance_limit 1 is hidden.
C14_BoundaryHiddenInResult ==
    PreExpansionDone =>
        \A k \in 1..Len(forceGraph.nodes) :
            LET n == forceGraph.nodes[k]
            IN IsBoundary(n) =>
                  /\ ~n.ignore => config.distance_limit = 2
                  /\ SingleChildScenario => n.ignore

\* C14 amended: a boundary node is pushed visible exactly if distance_limit
\* is 2; in the returned graph it is visible exactly if distance_limit is 2
\* or pre-expansion has expanded it or the source of a link into it; the
\* single retained child of a leak point built with distance_limit 1 is
\* visible in the result.
C14_BoundaryRevealedByPreExpansion ==
    /\ pc = "heap" =>
          \A k \in 1..Len(forceGraph.nodes) :
             IsBoundary(forceGraph.nodes[k]) =>
                (forceGraph.nodes[k].ignore <=> config.distance_limit # 2)
    /\ PreExpansionDone =>
          \A k \in 1..Len(forceGraph.nodes) :
             LET n == forceGraph.nodes[k]
             IN IsBoundary(n) =>
                   /\ ~n.ignore <=>
                         \/ config.distance_limit = 2
                         \/ n.index \in DOMAIN biggestList
                         \/ \E m \in 1..Len(forceGraph.links) :
                               /\ forceGraph.links[m].target = n.id
                               /\ forceGraph.links[m].sourceIndex \in DOMAIN biggestList
                   /\ SingleChildScenario => ~n.ignore

\* Build is about to return a graph of the single-child scenario whose
\* boundary node was pushed hidden and is visible now.
C14_Witness ==
    /\ PreExpansionDone
    /\ SingleChildScenario
    /\ Len(forceGraph.nodes) = 2
    /\ \E k \in 1..Len(forceGraph.nodes) :
          /\ IsBoundary(forceGraph.nodes[k])
          /\ ~forceGraph.nodes[k].ignore
          /\ forceGraph.nodes[k].index \notin DOMAIN biggestList

\* ------------------------------------------------------------------- C15
\* Nodes a and b differ in ignore, flag and category at most.
SameIdentity(a, b) ==
    b = [a EXCEPT !.ignore = b.ignore, !.flag = b.flag, !.category = b.category]

\* C15: a click leaves every graph its key, its links and its leak index,
\* and every node in its place with all fields but ignore, flag and category.
C15_ToggleFrame ==
    [][pc = "done" =>
          /\ DOMAIN forceGraphAll' = DOMAIN forceGraphAll
          /\ \A key \in DOMAIN forceGraphAll :
                LET before == forceGraphAll[key]
                    after == forceGraphAll'[key]
                IN /\ after.links = before.links
                   /\ after.index = before.index
                   /\ Len(after.nodes) = Len(before.nodes)
                   /\ \A k \in 1..Len(before.nodes) :
                         SameIdentity(before.nodes[k], after.nodes[k])]_vars

\* After some clicks, the last one a Collapse, a graph with two links or
\* more has a node whose ignore is not the one build returned.
C15_Witness ==
    /\ pc = "done"
    /\ lastToggle.branch = "collapse"
    /\ LET g == forceGraphAll[lastToggle.key]
       IN /\ Len(g.links) >= 2
          /\ \E k \in 1..Len(g.nodes) :
                /\ g.nodes[k].id # lastToggle.id
                /\ g.nodes[k].ignore # forceGraph.nodes[k].ignore

\* ------------------------------------------------------------------- C16
\* The indices of the nodes of every finished graph.
AllNodeIndices == UNION {NodeIndices(forceGraphAll[key]) : key \in DOMAIN forceGraphAll}

\* C16: once the analysis is complete heapUsed has an entry for the root,
\* for every leak point and for every node of every graph, and the entry is
\* the detail serialize returns for the index.
C16_HeapUsedComplete ==
    pc = "done" =>
        \A x \in {rootIndex} \cup Range(leakPoint) \cup AllNodeIndices :
            /\ x \in DOMAIN heapUsed
            /\ heapUsed[x] = serialize(x)
            /\ heapUsed[x].index = x

\* The analysis is complete with a graph of three nodes or more, none of
\* them the root.
C16_Witness ==
    /\ Built
    /\ rootIndex \notin AllNodeIndices
    /\ Cardinality(AllNodeIndices) >= 3
    /\ Cardinality(DOMAIN heapUsed) >= 4

\* ------------------------------------------------------------------- C17
\* A node with flag = false is visible and has category 0.
FlagFalseIsExpanded(nodes) ==
    \A k \in 1..Len(nodes) : ~nodes[k].flag => ~nodes[k].ignore /\ nodes[k].category = 0

\* C17: in the graph under construction, in every graph build returns and
\* after any clicks on it, a node with flag = false has ignore = false and
\* category = 0.
C17_FlagFalseVisible ==
    /\ FlagFalseIsExpanded(forceGraph.nodes)
    /\ \A key \in DOMAIN forceGraphAll : FlagFalseIsExpanded(forceGraphAll[key].nodes)

\* A Collapse click has hidden a descendant that was Expanded and left
\* another node Expanded.
C17_Witness ==
    /\ pc = "done"
    /\ lastToggle.branch = "collapse"
    /\ LET g == forceGraphAll[lastToggle.key]
       IN /\ \E k \in 1..Len(g.nodes) :
                /\ g.nodes[k].id \in Descendants(g.links, lastToggle.id)
                /\ g.nodes[k].ignore /\ g.nodes[k].flag /\ g.nodes[k].category = 0
          /\ \E k \in 1..Len(g.nodes) : IsExpanded(g.nodes[k])

\* ------------------------------------------------------------------- C18
\* Every target of a link whose source has flag = false is visible.
ChildrenOfExpandedVisible(graph) ==
    \A m \in 1..Len(graph.links), a, b \in 1..Len(graph.nodes) :
        (/\ graph.nodes[a].id = graph.links[m].source
         /\ graph.nodes[b].id = graph.links[m].target
         /\ ~graph.nodes[a].flag)
           => ~graph.nodes[b].ignore

\* C18 as stated: after any clicks on a built graph every target of a link
\* whose source is Expanded is visible.
C18_ExpandedShowsChildren ==
    pc = "done" =>
        \A key \in DOMAIN forceGraphAll : ChildrenOfExpandedVisible(forceGraphAll[key])

\* C18 amended: this holds of the graph build returns, and an Expand click
\* keeps it; a Collapse click may break it.
C18_ExpandKeepsChildrenVisible ==
    [][(/\ pc' = "done"
        /\ \/ pc # "done"
           \/ /\ lastToggle' # lastToggle
              /\ lastToggle'.branch = "expand"
              /\ \A key \in DOMAIN forceGraphAll :
                    ChildrenOfExpandedVisible(forceGraphAll[key]))
          => \A key \in DOMAIN forceGraphAll' :
                ChildrenOfExpandedVisible(forceGraphAll'[key])]_vars

\* An Expand click has acted on a node with a linked child in a graph where
\* another Expanded node has a linked child too, and all of them are visible.
C18_Witness ==
    /\ pc = "done"
    /\ lastToggle.branch = "expand"
    /\ LET g == forceGraphAll[lastToggle.key]
       IN /\ Targets(g.links, lastToggle.id) # {}
          /\ ChildrenOfExpandedVisible(g)
          /\ \E k \in 1..Len(g.nodes) :
                /\ g.nodes[k].id # lastToggle.id
                /\ ~g.nodes[k].flag
                /\ Targets(g.links, g.nodes[k].id) # {}

\* ------------------------------------------------------------------- C19
\* Both ends of every link are ids of nodes of the graph.
NoDanglingLink(graph) ==
    \A m \in 1..Len(graph.links) :
        /\ \E k \in 1..Len(graph.nodes) : graph.nodes[k].id = graph.links[m].source
        /\ \E k \in 1..Len(graph.nodes) : graph.nodes[k].id = graph.links[m].target

\* C19: once the while loop of a leak point has ended, and in every graph
\* build returns, both ends of every link are ids of nodes of the graph.
C19_NoDanglingLinks ==
    /\ TraversalDone => NoDanglingLink(forceGraph)
    /\ \A key \in DOMAIN forceGraphAll : NoDanglingLink(forceGraphAll[key])

\* Build has returned a graph of three links or more whose traversal ended
\* at the hop limit with a frontier left over.
C19_Witness ==
    /\ Built
    /\ leakIndexList # <<>>
    /\ distanceDisplay = config.distance_limit + 1
    /\ \E key \in DOMAIN forceGraphAll : Len(forceGraphAll[key].links) >= 3

\* Build has returned a graph with links whose traversal ended before the
\* hop limit because the frontier was empty.
C19_WitnessFrontierEmpty ==
    /\ Built
    /\ leakIndexList = <<>>
    /\ distanceDisplay <= config.distance_limit
    /\ \E key \in DOMAIN forceGraphAll : Len(forceGraphAll[key].links) >= 2

\* ------------------------------------------------------------------- C20
RECURSIVE Pow2(_)
Pow2(k) == IF k = 0 THEN 1 ELSE 2 * Pow2(k - 1)

\* C20: on any graph, with loops and links back to the clicked node, the
\* Collapse branch comes to its end: every link can at most double the list
\* of targets and add one, the list it ends with is the one collapseScan
\* computes, and the nodes are those collapseBranch computes.
C20_CollapseTerminates ==
    /\ [](scan.pc # "idle" =>
             /\ Len(scan.linksNodes) <= Pow2(Len(scan.links) + 1) - 2
             /\ scan.pc = "done" =>
                   /\ scan.linksNodes = collapseScan(scan.links, scan.dataId, 1, <<>>)
                   /\ scan.nodes = collapseBranch([nodes |-> ScanNodes,
                                                   links |-> scan.links],
                                                  ScanNodes[scan.dataId]))
    /\ <>(scan.pc = "done")

\* The Collapse branch has come to its end on a graph with a link from the
\* clicked node into a cycle and a link back to the clicked node, and has
\* accumulated a target more than once.
C20_Witness ==
    /\ scan.pc = "done"
    /\ \E a, b, c \in 1..Len(scan.links) :
          /\ scan.links[a].source = scan.dataId
          /\ scan.links[a].target # scan.dataId
          /\ scan.links[b].source = scan.links[a].target
          /\ scan.links[b].target = scan.links[a].target
          /\ scan.links[c].source = scan.links[a].target
          /\ scan.links[c].target = scan.dataId
    /\ Len(scan.linksNodes) > Cardinality(Range(scan.linksNodes))

====
